---- MODULE Spec2Model ----
(***************************************************************************)
(* Model of the email-to-subscription inference pipeline                   *)
(* (src/src/services/subscriptionService.ts), of the persistence merge     *)
(* (src/src/services/gmailServices.ts), of the subscription API, of the    *)
(* Telegram scheduler's daily checks, of the Gmail OAuth flow and of the   *)
(* payments.                                                               *)
(*                                                                         *)
(* Text.  A string is a sequence of atoms.  Digits, punctuation, blanks    *)
(* and currency signs are one atom per character; a word is one atom.      *)
(* The naira, euro and pound signs are written "#naira", "#euro" and       *)
(* "#pound".  Upper and lower case spellings of a word are different       *)
(* atoms, related by Lower.                                                *)
(*                                                                         *)
(* Optional values.  undefined / null is the empty tuple <<>>, a present   *)
(* value v is the one-element tuple <<v>>.                                 *)
(*                                                                         *)
(* Time.  A timestamp is an integer number of half days; DayUnits is the   *)
(* length of a day.  The clock of the OAuth flow counts minutes.  Money is *)
(* an integer number of cents.                                             *)
(***************************************************************************)
EXTENDS Integers, Sequences, FiniteSets, TLC

VARIABLES
    now,            \* wall clock (Date.now()), in half days
    msgs,           \* the message batch handed to parseSubscriptionsFromEmails
    runs,           \* results of the parser runs on msgs, oldest first
    subscription,   \* the Subscription table: a set of rows
    nextId,         \* per (user, provider): how many rows the store has made, plus one
    scan,           \* per scan slot: the running call of scanUserGmailForSubscriptions
    arg,            \* the argument a function under test is called with
    result,         \* <<>> before the call, <<value>> after it
    user,           \* the User table: per user the Telegram fields
    checkedDay,     \* the day of the latest run of the scheduler's daily check
    stateStore,     \* the OAuth states awaiting their callback, with user and time of issue
    issued,         \* every state startGmailConnect has generated, in order of issue
    googleToken,    \* the GoogleToken table: per user the tokens stored, if any
    callback,       \* per request slot: the running call of handleGmailCallback
    payment,        \* the Payment table in order of creation; a reference is a position
    gateway,        \* per reference: what Paystack or Stripe holds for it
    sent            \* the expiry notifications handed to telegramService.sendNotification

vars == <<now, msgs, runs, subscription, nextId, scan, arg, result, user, checkedDay,
          stateStore, issued, googleToken, callback, payment, gateway, sent>>
parseVars == <<msgs, runs>>
storeVars == <<subscription, nextId, scan>>
fnVars == <<arg, result>>
schedVars == <<user, checkedDay>>
payVars == <<payment, gateway>>
webVars == <<stateStore, issued, googleToken, callback, payVars, sent>>

----------------------------------------------------------------------------
(* Bounds and units *)

MaxBatch == 2       \* longest message batch of a parser run
MaxRuns == 2        \* parser runs on one batch
DayUnits == 2       \* clock ticks per day (1000 * 60 * 60 * 24 ms)

NScans == 2         \* calls of scanUserGmailForSubscriptions that can be in flight
MaxScanBatch == 2   \* longest message batch a scan fetches
MaxRows == 5        \* rows the Subscription table can hold
MaxIds == 2         \* ids the API hands out per user and provider; it deletes while one is left

\* the instants at which the clock is read
Instants == {99, 100, 130, 160}

----------------------------------------------------------------------------
(* Strings *)

Max(a, b) == IF a >= b THEN a ELSE b

Digits == {"0", "1", "2", "3", "4", "5", "6", "7", "8", "9"}

DigitValue(d) ==
    CASE d = "0" -> 0 [] d = "1" -> 1 [] d = "2" -> 2 [] d = "3" -> 3
      [] d = "4" -> 4 [] d = "5" -> 5 [] d = "6" -> 6 [] d = "7" -> 7
      [] d = "8" -> 8 [] d = "9" -> 9

\* String.prototype.toLowerCase on one atom
Lower(a) ==
    CASE a = "Netflix" -> "netflix"
      [] a = "Spotify" -> "spotify"
      [] a = "Your" -> "your"
      [] a = "From" -> "from"
      [] a = "Date" -> "date"
      [] a = "Subject" -> "subject"
      [] a = "USD" -> "usd"
      [] a = "NGN" -> "ngn"
      [] a = "EUR" -> "eur"
      [] a = "GBP" -> "gbp"
      [] a = "<HTML>" -> "<html>"
      [] a = "TEXT/HTML" -> "text/html"
      [] OTHER -> a

toLowerCase(s) == [i \in DOMAIN s |-> Lower(s[i])]

\* String.prototype.includes: pat occurs in s as a contiguous run
includes(s, pat) ==
    \E i \in 0..(Len(s) - Len(pat)) :
        \A k \in 1..Len(pat) : s[i + k] = pat[k]

Whitespace == {" ", "\n"}

\* the characters of the class [A-Za-z0-9 -]: everything except punctuation,
\* currency signs, line breaks and markup
NonWordAtoms == {"$", "#naira", "#euro", "#pound", ".", ",", ":", "@", "\n",
                 "<html>", "<HTML>", "<b>", "</b>", "</html>"}

IsProductChar(a) == a \notin NonWordAtoms

RECURSIVE DecimalValue(_)
DecimalValue(ds) ==
    IF ds = <<>> THEN 0
    ELSE 10 * DecimalValue(SubSeq(ds, 1, Len(ds) - 1)) + DigitValue(ds[Len(ds)])

\* String.prototype.trim
RECURSIVE trim(_)
trim(s) ==
    IF s = <<>> THEN s
    ELSE IF s[1] \in Whitespace THEN trim(Tail(s))
    ELSE IF s[Len(s)] \in Whitespace THEN trim(SubSeq(s, 1, Len(s) - 1))
    ELSE s

MinOf(S) == CHOOSE i \in S : \A j \in S : i <= j

----------------------------------------------------------------------------
(* Provider catalog: ../data/subs.json *)

subs == << [name |-> "Netflix", tag |-> "streaming"],
           [name |-> "Spotify", tag |-> "music"] >>

CatalogNames == {subs[i].name : i \in DOMAIN subs}

knownProviders ==
    [i \in DOMAIN subs |->
        [name |-> Lower(subs[i].name), tag |-> subs[i].tag,
         originalName |-> subs[i].name]]

----------------------------------------------------------------------------
(* decodeEmailBody *)

\* Buffer.from(data, "base64").toString("utf8"): body.data is kept decoded
decode(data) == data

TagAtoms == {"<html>", "<HTML>", "<b>", "</b>", "</html>"}

\* htmlToText: the markup is dropped, the text between it is kept
htmlToPlain(raw) == SelectSeq(raw, LAMBDA a : a \notin TagAtoms)

mimeIncludesHtml(mimeType) == Lower(mimeType) = "text/html"

\* Array.prototype.join(" ")
RECURSIVE joinSpace(_)
joinSpace(texts) ==
    IF texts = <<>> THEN <<>>
    ELSE IF Len(texts) = 1 THEN texts[1]
    ELSE texts[1] \o <<" ">> \o joinSpace(Tail(texts))

RECURSIVE extract(_)
extract(parts) ==
    joinSpace([i \in DOMAIN parts |->
        IF parts[i].body # <<>>
        THEN IF mimeIncludesHtml(parts[i].mimeType)
             THEN htmlToPlain(decode(parts[i].body))
             ELSE decode(parts[i].body)
        ELSE IF parts[i].parts # <<>> THEN extract(parts[i].parts)
        ELSE <<>>])

decodeEmailBody(payload) ==
    IF payload = <<>> THEN <<>>
    ELSE LET pl == payload[1] IN
         IF pl.body # <<>>
         THEN LET raw == decode(pl.body) IN
              toLowerCase(IF mimeIncludesHtml(pl.mimeType) \/ includes(raw, <<"<html>">>)
                          THEN htmlToPlain(raw) ELSE raw)
         ELSE IF pl.parts # <<>> THEN toLowerCase(extract(pl.parts))
         ELSE <<>>

----------------------------------------------------------------------------
(* findProvider *)

\* headers.find((h) => h.name.toLowerCase() === lname)?.value
headerValue(headers, lname) ==
    LET hits == {i \in DOMAIN headers : Lower(headers[i].name) = lname}
    IN  IF hits = {} THEN <<>> ELSE <<headers[MinOf(hits)].value>>

findProviderIn(text) ==
    LET hits == {i \in DOMAIN knownProviders : includes(text, <<knownProviders[i].name>>)}
    IN  IF hits = {} THEN <<>>
        ELSE << [name |-> knownProviders[MinOf(hits)].originalName,
                 tag |-> knownProviders[MinOf(hits)].tag] >>

\* the matcher mutated: the looser variant that falls back to "unknown"
findProviderOrUnknown(payload, fullText) ==
    IF payload # <<>> /\ findProviderIn(fullText) # <<>> THEN findProviderIn(fullText)
    ELSE << [name |-> "unknown", tag |-> "other"] >>

findProvider(payload, fullText) ==
    IF payload = <<>> THEN <<>>
    ELSE LET fromHdr == headerValue(payload[1].headers, "from")
             from == IF fromHdr = <<>> THEN <<>> ELSE toLowerCase(fromHdr[1])
         IN  IF findProviderIn(from) # <<>> THEN findProviderIn(from)
             ELSE findProviderIn(fullText)

----------------------------------------------------------------------------
(* extractAmount *)

IsDigitAt(text, i) == i \in DOMAIN text /\ text[i] \in Digits

\* [0-9]{1,3}, greedy, at position p
leadLen(text, p) ==
    IF IsDigitAt(text, p + 1) /\ IsDigitAt(text, p + 2) THEN 3
    ELSE IF IsDigitAt(text, p + 1) THEN 2 ELSE 1

threeDigitsAt(text, j) ==
    IsDigitAt(text, j) /\ IsDigitAt(text, j + 1) /\ IsDigitAt(text, j + 2)

\* (?:,?[0-9]{3})* from position j; digits read so far in acc
RECURSIVE thousands(_, _, _)
thousands(text, j, acc) ==
    IF j \in DOMAIN text /\ text[j] = "," /\ threeDigitsAt(text, j + 1)
    THEN thousands(text, j + 4, acc \o SubSeq(text, j + 1, j + 3))
    ELSE IF threeDigitsAt(text, j)
    THEN thousands(text, j + 3, acc \o SubSeq(text, j, j + 2))
    ELSE [end |-> j, digits |-> acc]

\* match[2] read at position p, commas removed, parseFloat'ed, in cents
numberAt(text, p) ==
    LET k == leadLen(text, p)
        g == thousands(text, p + k, SubSeq(text, p, p + k - 1))
        hasCents == g.end \in DOMAIN text /\ text[g.end] = "."
                    /\ IsDigitAt(text, g.end + 1) /\ IsDigitAt(text, g.end + 2)
    IN  100 * DecimalValue(g.digits)
        + (IF hasCents THEN DecimalValue(SubSeq(text, g.end + 1, g.end + 2)) ELSE 0)

\* the four patterns, in order; (marker)\s?(number), flag i
patterns == << {"$", "USD", "usd"},
               {"#naira", "NGN", "ngn"},
               {"#euro", "EUR", "eur"},
               {"#pound", "GBP", "gbp"} >>

\* the patterns mutated: no blank allowed between marker and number
matchesAtAttached(text, markers) ==
    {i \in DOMAIN text : text[i] \in markers /\ IsDigitAt(text, i + 1)}

\* positions at which a pattern matches: marker, optional blank, digit
matchesAt(text, markers) ==
    {i \in DOMAIN text :
        /\ text[i] \in markers
        /\ \/ IsDigitAt(text, i + 1)
           \/ (i + 1 \in DOMAIN text /\ text[i + 1] \in Whitespace
               /\ IsDigitAt(text, i + 2))}

\* the currency choice mutated: an unrecognised marker is returned as it is
currencyOfAsWritten(currencySymbol) ==
    IF currencySymbol \in {"#naira", "NGN"} THEN "NGN"
    ELSE IF currencySymbol \in {"$", "USD"} THEN "USD"
    ELSE IF currencySymbol \in {"#euro", "EUR"} THEN "EUR"
    ELSE IF currencySymbol \in {"#pound", "GBP"} THEN "GBP"
    ELSE currencySymbol

currencyOf(currencySymbol) ==
    IF currencySymbol \in {"#naira", "NGN"} THEN "NGN"
    ELSE IF currencySymbol \in {"$", "USD"} THEN "USD"
    ELSE IF currencySymbol \in {"#euro", "EUR"} THEN "EUR"
    ELSE IF currencySymbol \in {"#pound", "GBP"} THEN "GBP"
    ELSE "USD"

extractAmount(text) ==
    LET hit == {k \in DOMAIN patterns : matchesAt(text, patterns[k]) # {}}
    IN  IF hit = {} THEN [amount |-> <<>>, currency |-> <<>>]
        ELSE LET i == MinOf(matchesAt(text, patterns[MinOf(hit)]))
                 p == IF IsDigitAt(text, i + 1) THEN i + 1 ELSE i + 2
             IN  [amount |-> <<numberAt(text, p)>>,
                  currency |-> <<currencyOf(text[i])>>]

----------------------------------------------------------------------------
(* parseSubscriptionsFromEmails *)

Keywords == {"subscription", "renew", "renewal", "invoice", "receipt",
             "charged", "payment", "processed", "billed"}

\* /(subscription|renew|...|billed)/i.test(fullText)
hasKeyword(fullText) == \E i \in DOMAIN fullText : Lower(fullText[i]) \in Keywords

ProductTokens == {"plan", "subscription", "membership", "premium", "pro",
                  "plus", "monthly", "annual"}

\* end of the run [\s:]* that starts after position i
RECURSIVE sepEnd(_, _)
sepEnd(text, j) ==
    IF j \in DOMAIN text /\ text[j] \in (Whitespace \cup {":"})
    THEN sepEnd(text, j + 1) ELSE j

\* where the group ([A-Za-z0-9 -]+) starts for a token at position i; 0 if the
\* pattern does not match there.  The separator run gives characters back
\* until the group can start.
groupStart(text, i) ==
    LET j == sepEnd(text, i + 1)
        blanks == {q \in (i + 1)..(j - 1) : text[q] = " "}
    IN  IF j \in DOMAIN text /\ IsProductChar(text[j]) THEN j
        ELSE IF blanks = {} THEN 0
        ELSE CHOOSE q \in blanks : \A r \in blanks : r <= q

RECURSIVE groupEnd(_, _)
groupEnd(text, e) ==
    IF (e + 1) \in DOMAIN text /\ IsProductChar(text[e + 1])
    THEN groupEnd(text, e + 1) ELSE e

\* prodMatch[2].trim().split("\n")[0], or undefined
productOf(fullText) ==
    LET hits == {i \in DOMAIN fullText :
                    Lower(fullText[i]) \in ProductTokens /\ groupStart(fullText, i) # 0}
    IN  IF hits = {} THEN <<>>
        ELSE LET b == groupStart(fullText, MinOf(hits))
             IN  << trim(SubSeq(fullText, b, groupEnd(fullText, b))) >>

\* new Date(str): the timestamp written in str, or Invalid Date (<<>>)
DateParse(str) ==
    IF str # <<>> /\ \A i \in DOMAIN str : str[i] \in Digits
    THEN <<DecimalValue(str)>> ELSE <<>>

\* the day arithmetic mutated: n clock ticks are added instead of n days
addDaysAsTicks(date, n) == date + n

addDays(date, n) == date + n * DayUnits

\* the amount gate mutated: a zero amount passes
noValidAmountZeroPasses(amount) == amount = <<>>

\* !amount || amount <= 0
noValidAmount(amount) == amount = <<>> \/ amount[1] <= 0

\* one turn of the loop over msgs at clock t:
\* "skip" (continue), "throw" (toISOString on an Invalid Date) or "push"
loopBody(m, t) ==
    LET decodedBody == decodeEmailBody(m.payload)
        snippet == IF m.snippet = <<>> THEN <<>> ELSE toLowerCase(m.snippet[1])
        fullText == IF decodedBody # <<>> THEN decodedBody ELSE snippet
        providerInfo == findProvider(m.payload, fullText)
        ex == extractAmount(fullText)
        headers == IF m.payload = <<>> THEN <<>> ELSE m.payload[1].headers
        subjectHdr == headerValue(headers, "subject")
        subject == IF subjectHdr = <<>> THEN <<>> ELSE subjectHdr[1]
        sentDateStr == headerValue(headers, "date")
        sentDate == IF sentDateStr = <<>> \/ sentDateStr[1] = <<>>
                    THEN <<t>> ELSE DateParse(sentDateStr[1])
    IN  IF providerInfo = <<>> THEN [kind |-> "skip"]
        ELSE IF ~hasKeyword(fullText) THEN [kind |-> "skip"]
        ELSE IF noValidAmount(ex.amount) THEN [kind |-> "skip"]
        ELSE IF sentDate = <<>> THEN [kind |-> "throw"]
        ELSE [kind |-> "push",
              sub |-> [provider |-> providerInfo[1].name,
                       tag |-> providerInfo[1].tag,
                       product |-> productOf(fullText),
                       amount |-> ex.amount,
                       currency |-> ex.currency,
                       startDate |-> sentDate[1],
                       nextBilling |-> addDays(sentDate[1], 30),
                       rawData |-> [messageId |-> m.id,
                                    subject |-> subject,
                                    snippet |-> m.snippet,
                                    sentDate |-> sentDate[1]]]]

\* the grouping mutated: every candidate opens a bucket of its own
bucketPushUngrouped(buckets, sub) ==
    Append(buckets, [provider |-> sub.provider, subscriptions |-> <<sub>>])

\* potentialByProvider.get(name).push(sub); the Map keeps insertion order
bucketPush(buckets, sub) ==
    LET hits == {i \in DOMAIN buckets : buckets[i].provider = sub.provider}
    IN  IF hits = {}
        THEN Append(buckets, [provider |-> sub.provider, subscriptions |-> <<sub>>])
        ELSE [buckets EXCEPT ![MinOf(hits)].subscriptions = Append(@, sub)]

\* Step 1: the loop over msgs from message k on
RECURSIVE collect(_, _, _, _)
collect(ms, t, k, buckets) ==
    IF k > Len(ms) THEN [threw |-> FALSE, buckets |-> buckets]
    ELSE LET r == loopBody(ms[k], t)
         IN  IF r.kind = "throw" THEN [threw |-> TRUE, buckets |-> <<>>]
             ELSE IF r.kind = "skip" THEN collect(ms, t, k + 1, buckets)
             ELSE collect(ms, t, k + 1, bucketPush(buckets, r.sub))

present(opt) == opt # <<>>

recencyBonus(startDate, t) ==
    LET daysSinceStart == (t - startDate) \div DayUnits
    IN  Max(0, 10 - (daysSinceStart \div 3))

\* the scorer mutated: no penalty for an amount below 5
calculateSubscriptionScoreNoPenalty(sub, t) ==
    (IF present(sub.amount) /\ sub.amount[1] > 0
     THEN 20 + (IF sub.amount[1] >= 500 /\ sub.amount[1] <= 1000000 THEN 30 ELSE 0)
     ELSE -20)
    + (IF present(sub.product) /\ sub.product[1] # <<>>
          /\ sub.product[1] # <<"unknown">> THEN 5 ELSE 0)
    + (IF present(sub.currency) THEN 5 ELSE 0)
    + recencyBonus(sub.startDate, t)

calculateSubscriptionScore(sub, t) ==
    (IF present(sub.amount) /\ sub.amount[1] > 0
     THEN 20 + (IF sub.amount[1] >= 500 /\ sub.amount[1] <= 1000000 THEN 30
                ELSE IF sub.amount[1] < 500 THEN -10 ELSE 0)
     ELSE -20)
    + (IF present(sub.product) /\ sub.product[1] # <<>>
          /\ sub.product[1] # <<"unknown">> THEN 5 ELSE 0)
    + (IF present(sub.currency) THEN 5 ELSE 0)
    + recencyBonus(sub.startDate, t)

\* the sort mutated: among equal scores the later candidate comes first
RECURSIVE sortByScoreLastFirst(_)
sortByScoreLastFirst(scored) ==
    IF scored = <<>> THEN <<>>
    ELSE LET best == CHOOSE i \in DOMAIN scored :
                        \A j \in DOMAIN scored :
                            \/ scored[j].score < scored[i].score
                            \/ scored[j].score = scored[i].score /\ j <= i
         IN  <<scored[best]>>
             \o sortByScoreLastFirst([i \in 1..(Len(scored) - 1) |->
                                        IF i < best THEN scored[i] ELSE scored[i + 1]])

\* scored.sort((a, b) => b.score - a.score): stable, highest first
RECURSIVE sortByScore(_)
sortByScore(scored) ==
    IF scored = <<>> THEN <<>>
    ELSE LET best == MinOf({i \in DOMAIN scored :
                               \A j \in DOMAIN scored : scored[j].score <= scored[i].score})
         IN  <<scored[best]>>
             \o sortByScore([i \in 1..(Len(scored) - 1) |->
                                IF i < best THEN scored[i] ELSE scored[i + 1]])

\* Step 2, for one provider bucket
pickBest(subscriptions, t) ==
    IF Len(subscriptions) = 1 THEN subscriptions[1]
    ELSE sortByScore([i \in DOMAIN subscriptions |->
            [sub |-> subscriptions[i],
             score |-> calculateSubscriptionScore(subscriptions[i], t)]])[1].sub

\* the whole function, run at clock t: it throws or returns finalSubscriptions
parseSubscriptionsFromEmails(ms, t) ==
    LET c == collect(ms, t, 1, <<>>)
    IN  IF c.threw THEN [threw |-> TRUE, subs |-> <<>>]
        ELSE [threw |-> FALSE,
              subs |-> [i \in DOMAIN c.buckets |->
                           pickBest(c.buckets[i].subscriptions, t)]]

----------------------------------------------------------------------------
(* Messages: what gmail.users.messages.get hands to the parser *)

Hdr(n, v) == [name |-> n, value |-> v]

Single(hs, mime, data) ==
    << [headers |-> hs, mimeType |-> mime, body |-> data, parts |-> <<>>] >>

Part(mime, data) ==
    [headers |-> <<>>, mimeType |-> mime, body |-> data, parts |-> <<>>]

\* Netflix, $15.99, plain text, sent at 64
mNetflixA ==
    [id |-> "m1", snippet |-> <<>>,
     payload |-> Single(<< Hdr("From", <<"billing", "@", "netflix", ".", "com">>),
                           Hdr("Date", <<"6", "4">>),
                           Hdr("Subject", <<"Your", " ", "receipt">>) >>,
                        "text/plain",
                        <<"Your", " ", "Netflix", " ", "subscription", " ", "was",
                          " ", "charged", " ", "$", "1", "5", ".", "9", "9">>)]

\* Netflix, USD 17.99, HTML, sent at 100, no product wording
mNetflixB ==
    [id |-> "m2", snippet |-> <<>>,
     payload |-> Single(<< Hdr("from", <<"Netflix">>), Hdr("date", <<"1", "0", "0">>) >>,
                        "TEXT/HTML",
                        <<"<html>", "<b>", "Netflix", "</b>", " ", "receipt", ":", " ",
                          "USD", " ", "1", "7", ".", "9", "9", "</html>">>)]

\* Spotify, named in the body only, multi-part, naira 1,500, no Date header
mSpotify ==
    [id |-> "m3", snippet |-> << <<"Spotify", " ", "invoice">> >>,
     payload |-> << [headers |-> << Hdr("From", <<"billing", "@", "example", ".", "com">>) >>,
                     mimeType |-> "multipart/alternative", body |-> <<>>,
                     parts |-> << Part("text/plain", <<"Spotify", " ", "invoice">>),
                                  Part("text/html", <<"<b>", "#naira", "1", ",", "5", "0",
                                                      "0", "</b>", " ", "billed">>) >>] >>]

\* no payload at all: only the snippet
mSnippetOnly ==
    [id |-> "m4",
     snippet |-> << <<"Your", " ", "Netflix", " ", "subscription", " ", "was", " ",
                      "charged", " ", "$", "1", "5", ".", "9", "9", " ", "on", " ",
                      "2", "0", "2", "4", "-", "0", "3", "-", "0", "1">> >>,
     payload |-> <<>>]

\* keyword and amount, but no catalog name anywhere
mNewsletter ==
    [id |-> "m5", snippet |-> <<>>,
     payload |-> Single(<< Hdr("From", <<"news", "@", "example", ".", "com">>),
                           Hdr("Date", <<"9", "0">>) >>,
                        "text/plain",
                        <<"weekly", " ", "newsletter", " ", "payment", " ", "$", "9",
                          ".", "9", "9">>)]

\* catalog name and amount, but no relevance keyword
mNoKeyword ==
    [id |-> "m6", snippet |-> <<>>,
     payload |-> Single(<< Hdr("From", <<"info", "@", "netflix", ".", "com">>),
                           Hdr("Date", <<"9", "0">>) >>,
                        "text/plain",
                        <<"Netflix", " ", "new", " ", "shows", " ", "$", "1", "5", ".",
                          "9", "9">>)]

\* catalog name and keyword, a bare number but no currency marker
mNoAmount ==
    [id |-> "m7", snippet |-> <<>>,
     payload |-> Single(<< Hdr("From", <<"Spotify">>), Hdr("Date", <<"9", "0">>) >>,
                        "text/plain",
                        <<"Spotify", " ", "renewal", " ", "1", "5", ".", "9", "9">>)]

\* catalog name, keyword and an amount of zero
mZero ==
    [id |-> "m8", snippet |-> <<>>,
     payload |-> Single(<< Hdr("From", <<"Spotify">>), Hdr("Date", <<"9", "0">>) >>,
                        "text/plain",
                        <<"Spotify", " ", "payment", " ", "$", "0", ".", "0", "0">>)]

\* a qualifying message whose Date header is no date
mBadDate ==
    [id |-> "m9", snippet |-> <<>>,
     payload |-> Single(<< Hdr("From", <<"Netflix">>), Hdr("Date", <<"soon">>) >>,
                        "text/plain",
                        <<"Netflix", " ", "invoice", " ", "$", "1", "5", ".", "9", "9">>)]

\* payload without body: the snippet is the text; Netflix, $4.50, sent at 100
mSmall ==
    [id |-> "m10",
     snippet |-> << <<"Netflix", " ", "premium", " ", "plan", " ", "charged", " ",
                      "$", "4", ".", "5", "0">> >>,
     payload |-> Single(<< Hdr("From", <<"Netflix">>), Hdr("Date", <<"1", "0", "0">>) >>,
                        "text/plain", <<>>)]

Pool == {mNetflixA, mNetflixB, mSpotify, mSnippetOnly, mNewsletter, mNoKeyword,
         mNoAmount, mZero, mBadDate, mSmall}

\* batches of distinct messages (the caller deduplicates the ids)
BatchesOf(pool, n) ==
    UNION {{b \in [1..k -> pool] : \A i, j \in 1..k : b[i] = b[j] => i = j} : k \in 0..n}

Batches == BatchesOf(Pool, MaxBatch)

----------------------------------------------------------------------------
(* The parser as a state machine: a batch, parsed at one or more instants *)

Users == {"u1", "u2"}

\* a User row as created at sign-up: hasPaidForTelegram false, no chat linked
NewUser ==
    [hasPaidForScanning |-> FALSE, hasPaidForTelegram |-> FALSE, telegramChatId |-> <<>>]

\* a request slot on which no callback has arrived
IdleCallback == [pc |-> "idle", query |-> <<>>, userId |-> <<>>, age |-> 0, status |-> 0]

\* the server has just started: no OAuth state, no Google token, no callback,
\* no payment, no notification
InitWeb ==
    /\ stateStore = {} /\ issued = <<>>
    /\ googleToken = [u \in Users |-> <<>>]
    /\ callback = [c \in 1..NScans |-> IdleCallback]
    /\ payment = <<>> /\ gateway = <<>>
    /\ sent = {}

InitParse ==
    /\ now \in Instants
    /\ msgs \in Batches
    /\ runs = <<>>
    /\ subscription = {}
    /\ nextId = <<>>
    /\ scan = <<>>
    /\ arg = <<>> /\ result = <<>>
    /\ user = [u \in Users |-> NewUser]
    /\ checkedDay = 0 /\ InitWeb

ParseRun ==
    /\ Len(runs) < MaxRuns
    /\ runs' = Append(runs, [at |-> now, result |-> parseSubscriptionsFromEmails(msgs, now)])
    /\ UNCHANGED <<now, msgs, storeVars, fnVars, schedVars, webVars>>

Tick ==
    /\ \E t \in Instants : t > now /\ now' = t
    /\ UNCHANGED <<parseVars, storeVars, fnVars, schedVars, webVars>>

NextParse == ParseRun \/ Tick

SpecParse == InitParse /\ [][NextParse]_vars

----------------------------------------------------------------------------
(* scanUserGmailForSubscriptions: fetch, parse, then merge into the store *)

Scans == 1..NScans

\* the messages a scan can fetch
ScanPool == {mNetflixA, mNetflixB, mSpotify, mBadDate}

ScanBatches == BatchesOf(ScanPool, MaxScanBatch)

IdleScan ==
    [pc |-> "idle", user |-> "", parsed |-> <<>>, idx |-> 0, existing |-> <<>>,
     saved |-> <<>>, failedAt |-> 0, again |-> FALSE, startStore |-> {}]

Init ==
    /\ now \in Instants
    /\ msgs = <<>>
    /\ runs = <<>>
    /\ subscription = {}
    /\ nextId = [u \in Users |-> [n \in CatalogNames |-> 1]]
    /\ scan = [s \in Scans |-> IdleScan]
    /\ arg = <<>> /\ result = <<>>
    /\ user = [u \in Users |-> NewUser]
    /\ checkedDay = 0 /\ InitWeb

\* subs.find((s) => s.name.toLowerCase() === p.provider.toLowerCase())?.tag || "other"
tagFor(provider) ==
    LET hits == {i \in DOMAIN subs : Lower(subs[i].name) = Lower(provider)}
    IN  IF hits = {} \/ subs[MinOf(hits)].tag = "" THEN "other"
        ELSE subs[MinOf(hits)].tag

\* the where clause mutated: the provider is compared lowercased
whereMatchesLowercased(row, userId, p) ==
    row.userId = userId /\ row.provider = Lower(p.provider)

\* where: { userId, provider: p.provider }
whereMatches(row, userId, p) ==
    row.userId = userId /\ row.provider = p.provider

\* a string is truthy when it is neither undefined nor ""
truthy(str) == str # <<>> /\ str[1] # <<>>

\* the update mutated: the stored amount and currency win when present
updateDataCoalescing(p, existing, tag) ==
    [amount |-> IF existing.amount # <<>> THEN existing.amount ELSE p.amount,
     currency |-> IF existing.currency # <<>> THEN existing.currency ELSE p.currency,
     product |-> IF truthy(p.product) THEN p.product ELSE existing.product,
     startDate |-> p.startDate,
     nextBilling |-> p.nextBilling,
     tag |-> tag,
     rawData |-> p.rawData]

\* the update mutated: every rescan moves the stored billing date on by a cycle
updateDataAdvancing(p, existing, tag) ==
    [amount |-> p.amount,
     currency |-> p.currency,
     product |-> IF truthy(p.product) THEN p.product ELSE existing.product,
     startDate |-> p.startDate,
     nextBilling |-> addDays(existing.nextBilling, 30),
     tag |-> tag,
     rawData |-> p.rawData]

\* data: { ... } of prisma.subscription.update
updateData(p, existing, tag) ==
    [amount |-> p.amount,
     currency |-> p.currency,
     product |-> IF truthy(p.product) THEN p.product ELSE existing.product,
     startDate |-> p.startDate,
     nextBilling |-> p.nextBilling,
     tag |-> tag,
     rawData |-> p.rawData]

\* the columns named in data are written, the others keep their value
applyUpdate(row, data) ==
    [row EXCEPT !.amount = data.amount, !.currency = data.currency,
                !.product = data.product, !.startDate = data.startDate,
                !.nextBilling = data.nextBilling, !.tag = data.tag,
                !.rawData = data.rawData]

\* the default of the status column: status String? @default("active")
statusDefault == "active"

\* the create mutated: the tag looked up in the catalog is not stored
createDataUntagged(n, userId, p, tag) ==
    [id |-> <<userId, p.provider, n>>, userId |-> userId, provider |-> p.provider,
     product |-> p.product, amount |-> p.amount, currency |-> p.currency,
     startDate |-> p.startDate, nextBilling |-> p.nextBilling, tag |-> "other",
     rawData |-> p.rawData, status |-> statusDefault, expiryDate |-> <<>>]

\* data: { ... } of prisma.subscription.create, with the column defaults.
\* The primary key is a fresh opaque value: the n-th row made for (user, provider).
createData(n, userId, p, tag) ==
    [id |-> <<userId, p.provider, n>>, userId |-> userId, provider |-> p.provider,
     product |-> p.product, amount |-> p.amount, currency |-> p.currency,
     startDate |-> p.startDate, nextBilling |-> p.nextBilling, tag |-> tag,
     rawData |-> p.rawData, status |-> statusDefault, expiryDate |-> <<>>]

Running(s) == scan[s].pc \in {"find", "write"}

\* after the write for candidate idx: next candidate, or the function returns
afterWrite(s, entry) ==
    [scan[s] EXCEPT !.saved = Append(@, entry),
                    !.idx = @ + 1,
                    !.pc = IF scan[s].idx = Len(scan[s].parsed) THEN "done" ELSE "find"]

\* the call starts: messages are fetched and parsed at the current instant
StartScan(s, userId, batch) ==
    LET r == parseSubscriptionsFromEmails(batch, now) IN
    /\ scan[s].pc = "idle"
    /\ scan' = [scan EXCEPT ![s] =
            [IdleScan EXCEPT
                !.pc = IF r.threw THEN "failed" ELSE IF r.subs = <<>> THEN "done" ELSE "find",
                !.user = userId, !.parsed = r.subs, !.idx = 1]]
    /\ UNCHANGED <<now, parseVars, fnVars, schedVars, subscription, nextId, webVars>>

\* a scan that starts while no other call is in flight
StartScanAlone(s) ==
    /\ \A o \in Scans : scan[o].pc = "idle"
    /\ \E userId \in Users, batch \in ScanBatches : StartScan(s, userId, batch)

\* a scan that starts whatever the other calls are doing
StartScanAny(s) ==
    \E userId \in Users, batch \in ScanBatches : StartScan(s, userId, batch)

\* the user scans again right after a completed scan and the parser returns
\* the same candidates: the merge is applied a second time in succession
ScanAgain(s) ==
    /\ scan[s].pc = "done"
    /\ scan[s].parsed # <<>>
    /\ ~scan[s].again
    /\ \A o \in Scans \ {s} : scan[o].pc = "idle"
    /\ scan' = [scan EXCEPT ![s] =
            [IdleScan EXCEPT !.pc = "find", !.user = scan[s].user,
                             !.parsed = scan[s].parsed, !.idx = 1,
                             !.again = TRUE, !.startStore = subscription]]
    /\ UNCHANGED <<now, parseVars, fnVars, schedVars, subscription, nextId, webVars>>

\* const existing = await prisma.subscription.findFirst(...)
FindFirst(s) ==
    LET p == scan[s].parsed[scan[s].idx]
        found == {row \in subscription : whereMatches(row, scan[s].user, p)}
    IN  /\ scan[s].pc = "find"
        /\ \E e \in (IF found = {} THEN {<<>>} ELSE {<<row>> : row \in found}) :
              scan' = [scan EXCEPT ![s].existing = e, ![s].pc = "write"]
        /\ UNCHANGED <<now, parseVars, fnVars, schedVars, subscription, nextId, webVars>>

\* if (existing): await prisma.subscription.update(...); saved.push(updated)
UpdateRow(s) ==
    LET p == scan[s].parsed[scan[s].idx]
        existing == scan[s].existing[1]
        stored == {row \in subscription : row.id = existing.id}
    IN  /\ scan[s].pc = "write"
        /\ scan[s].existing # <<>>
        /\ IF stored = {}
           THEN \* the row is gone: update throws and the call rejects
                /\ scan' = [scan EXCEPT ![s].pc = "failed", ![s].failedAt = scan[s].idx]
                /\ UNCHANGED subscription
           ELSE LET row == CHOOSE r \in stored : TRUE
                    updated == applyUpdate(row, updateData(p, existing, tagFor(p.provider)))
                IN  /\ subscription' = (subscription \ {row}) \cup {updated}
                    /\ scan' = [scan EXCEPT ![s] =
                                    afterWrite(s, [op |-> "updated", row |-> updated])]
        /\ UNCHANGED <<now, parseVars, fnVars, schedVars, nextId, webVars>>

\* else: await prisma.subscription.create(...); saved.push(created)
CreateRow(s) ==
    LET p == scan[s].parsed[scan[s].idx]
        u == scan[s].user
        created == createData(nextId[u][p.provider], u, p, tagFor(p.provider))
    IN  /\ scan[s].pc = "write"
        /\ scan[s].existing = <<>>
        /\ Cardinality(subscription) < MaxRows
        /\ subscription' = subscription \cup {created}
        /\ nextId' = [nextId EXCEPT ![u][p.provider] = @ + 1]
        /\ scan' = [scan EXCEPT ![s] = afterWrite(s, [op |-> "created", row |-> created])]
        /\ UNCHANGED <<now, parseVars, fnVars, schedVars, webVars>>

\* the store throws on the pending find, update or create: nothing catches it
\* inside the loop, so the call rejects
StoreFails(s) ==
    /\ Running(s)
    /\ scan' = [scan EXCEPT ![s].pc = "failed", ![s].failedAt = scan[s].idx]
    /\ UNCHANGED <<now, parseVars, fnVars, schedVars, subscription, nextId, webVars>>

\* return saved, or the rejection reaches the caller
Return(s) ==
    /\ scan[s].pc \in {"done", "failed"}
    /\ scan' = [scan EXCEPT ![s] = IdleScan]
    /\ UNCHANGED <<now, parseVars, fnVars, schedVars, subscription, nextId, webVars>>

\* scans one after the other
Next ==
    \/ \E s \in Scans : StartScanAlone(s)
    \/ \E s \in Scans : ScanAgain(s)
    \/ \E s \in Scans : FindFirst(s)
    \/ \E s \in Scans : UpdateRow(s)
    \/ \E s \in Scans : CreateRow(s)
    \/ \E s \in Scans : StoreFails(s)
    \/ \E s \in Scans : Return(s)
    \/ Tick

Spec == Init /\ [][Next]_vars

\* NScans calls, each started at any moment, that may overlap
NextConc ==
    \/ \E s \in Scans : StartScanAny(s)
    \/ \E s \in Scans : FindFirst(s)
    \/ \E s \in Scans : UpdateRow(s)
    \/ \E s \in Scans : CreateRow(s)
    \/ \E s \in Scans : StoreFails(s)

SpecConc == Init /\ [][NextConc]_vars

----------------------------------------------------------------------------
(* calculateSubscriptionScore, called on a candidate at one instant *)

\* candidates (ParsedSub): the fields the scorer reads, at their edge values
ScoreAmounts == {<<>>, <<0>>, <<450>>, <<499>>, <<500>>, <<1599>>,
                 <<1000000>>, <<1000001>>}

ScoreProducts == {<<>>, << <<>> >>, << <<"unknown">> >>,
                  << <<"premium", " ", "plan">> >>}

ScoreStartDates == {64, 100, 101, 130, 161, 240}

ScoreInputs ==
    [amount : ScoreAmounts, product : ScoreProducts,
     currency : {<<>>, <<"USD">>}, startDate : ScoreStartDates]

InitScore ==
    /\ now \in Instants
    /\ arg \in ScoreInputs
    /\ result = <<>>
    /\ msgs = <<>> /\ runs = <<>>
    /\ subscription = {} /\ nextId = <<>> /\ scan = <<>>
    /\ user = [u \in Users |-> NewUser]
    /\ checkedDay = 0 /\ InitWeb

\* one call: the score, and the recency term that went into it
Score ==
    /\ result = <<>>
    /\ result' = << [score |-> calculateSubscriptionScore(arg, now),
                     recency |-> recencyBonus(arg.startDate, now)] >>
    /\ UNCHANGED <<now, arg, parseVars, storeVars, schedVars, webVars>>

\* Step 2 on a bucket of two: the candidate and a rival whose amount lies in
\* [5, 10000], in either order of arrival
Pick ==
    /\ result = <<>>
    /\ \E rival \in [amount : {<<500>>, <<1000000>>},
                      product : {<<>>, << <<"premium", " ", "plan">> >>},
                      currency : {<<>>, <<"USD">>}, startDate : {40, 161}] :
          \E bucket \in {<<arg, rival>>, <<rival, arg>>} :
             result' = << [score |-> calculateSubscriptionScore(arg, now),
                           recency |-> recencyBonus(arg.startDate, now),
                           rival |-> rival,
                           best |-> pickBest(bucket, now)] >>
    /\ UNCHANGED <<now, arg, parseVars, storeVars, schedVars, webVars>>

NextScore == Score \/ Pick

SpecScore == InitScore /\ [][NextScore]_vars

----------------------------------------------------------------------------
(* extractAmount, called on a text as written and as the pipeline passes it *)

AllMarkers == UNION {patterns[k] : k \in DOMAIN patterns}

AmountNumbers == { <<"1", "5", ".", "9", "9">>, <<"6", ",", "6", "0", "0">>,
                   <<"3", "0">>, <<"0">> }

AmountLeads == { <<>>, <<"total", ":", " ">> }

AmountTrails == { <<>>, <<" ", "#euro", "3", "0">> }

\* a number and a marker next to each other, in either order, or a bare number
AmountTexts ==
    {lead \o mk \o sep \o num \o trail :
        lead \in AmountLeads, mk \in {<<a>> : a \in AllMarkers},
        sep \in {<<>>, <<" ">>}, num \in AmountNumbers, trail \in AmountTrails}
    \cup {lead \o num \o sep \o mk \o trail :
        lead \in AmountLeads, mk \in {<<a>> : a \in AllMarkers},
        sep \in {<<>>, <<" ">>}, num \in AmountNumbers, trail \in AmountTrails}
    \cup {lead \o num : lead \in AmountLeads, num \in AmountNumbers}

InitAmount ==
    /\ now \in Instants
    /\ arg \in AmountTexts
    /\ result = <<>>
    /\ msgs = <<>> /\ runs = <<>>
    /\ subscription = {} /\ nextId = <<>> /\ scan = <<>>
    /\ user = [u \in Users |-> NewUser]
    /\ checkedDay = 0 /\ InitWeb

\* extractAmount(text) on the text as written
ExtractAsWritten ==
    /\ result = <<>>
    /\ result' = << [text |-> arg, out |-> extractAmount(arg)] >>
    /\ UNCHANGED <<now, arg, parseVars, storeVars, schedVars, webVars>>

\* extractAmount(fullText): the pipeline lowercases the text first
ExtractLowercased ==
    /\ result = <<>>
    /\ result' = << [text |-> toLowerCase(arg), out |-> extractAmount(toLowerCase(arg))] >>
    /\ UNCHANGED <<now, arg, parseVars, storeVars, schedVars, webVars>>

NextAmount == ExtractAsWritten \/ ExtractLowercased

SpecAmount == InitAmount /\ [][NextAmount]_vars

----------------------------------------------------------------------------
(* decodeEmailBody, called on single-body, multi-part and nested payloads *)

\* payloads: body.data of three kinds (plain text, an HTML document, an HTML
\* fragment) under three MIME types, alone, as one or two parts, and nested
InitDecode ==
    LET mimes == {"text/plain", "text/html", "TEXT/HTML"}
        datas == { <<"Netflix", " ", "receipt">>,
                   <<"<html>", "<b>", "Your", "</b>", " ", "plan", "</html>">>,
                   <<"<b>", "Spotify", "</b>">> }
        leaves == {Part(mime, data) : mime \in mimes, data \in datas}
                  \cup {Part("text/plain", <<>>)}
        nested == {[headers |-> <<>>, mimeType |-> "multipart/related",
                    body |-> <<>>, parts |-> <<leaf>>] : leaf \in leaves}
        parts == leaves \cup nested
        multi == {[headers |-> <<>>, mimeType |-> "multipart/alternative",
                   body |-> <<>>, parts |-> ps] :
                     ps \in {<<a>> : a \in parts}
                            \cup {<<a, b>> : a \in leaves, b \in parts}}
    IN  /\ now \in Instants
        /\ arg \in {<<pl>> : pl \in leaves \cup multi} \cup {<<>>}
        /\ result = <<>>
        /\ msgs = <<>> /\ runs = <<>>
        /\ subscription = {} /\ nextId = <<>> /\ scan = <<>>
        /\ user = [u \in Users |-> NewUser]
        /\ checkedDay = 0 /\ InitWeb

\* one call of decodeEmailBody(payload)
Decode ==
    /\ result = <<>>
    /\ result' = << decodeEmailBody(arg) >>
    /\ UNCHANGED <<now, arg, parseVars, storeVars, schedVars, webVars>>

SpecDecode == InitDecode /\ [][Decode]_vars

----------------------------------------------------------------------------
(* The daily expired-subscription check of the Telegram scheduler, next to *)
(* scans and to PUT /subscriptions/:id, on a clock that advances by half days *)

SchedStart == 158   \* first instant: the morning of day 79
SchedEnd == 162     \* last instant: the morning of day 81

Day(t) == t \div DayUnits

\* yesterday.setDate(getDate() - 1); yesterday.setHours(0, 0, 0, 0)
yesterdayMidnight(t) == (Day(t) - 1) * DayUnits

\* a user that has paid for Telegram notifications and linked a chat
LinkedUser == [NewUser EXCEPT !.hasPaidForTelegram = TRUE, !.telegramChatId = <<"chat">>]

\* a user that has paid but linked no chat
PaidUser == [NewUser EXCEPT !.hasPaidForTelegram = TRUE]

UserStates == {NewUser, PaidUser, LinkedUser}

\* receipts a scan of the period finds: dated 64 and 100, billed 124 and 160
SchedBatches == {<<mNetflixA>>, <<mNetflixB>>}

\* request bodies of PUT /subscriptions/:id
UpdateBodies == {[status |-> "expired"], [status |-> "active"], [amount |-> <<-100>>]}

InitSched ==
    /\ now = SchedStart
    /\ msgs = <<>> /\ runs = <<>>
    /\ subscription = {}
    /\ nextId = [u \in Users |-> [n \in CatalogNames |-> 1]]
    /\ scan = [s \in Scans |-> IdleScan]
    /\ arg = <<>> /\ result = <<>>
    /\ user \in [Users -> UserStates]
    /\ checkedDay = Day(SchedStart) - 1 /\ InitWeb

\* gte: yesterday, lte: now
inWindow(date, t) == date # <<>> /\ date[1] >= yesterdayMidnight(t) /\ date[1] <= t

\* the where clause of findMany in checkExpiredSubscriptions
expiredWhere(row, t) ==
    /\ row.status = "active"
    /\ inWindow(row.expiryDate, t) \/ inWindow(<<row.nextBilling>>, t)
    /\ user[row.userId].hasPaidForTelegram
    /\ user[row.userId].telegramChatId # <<>>

\* cron "0 10 * * *": once a day, in the morning. Every row found is notified
\* (sendNotification catches its own errors and writes nothing) and updated.
checkExpiredSubscriptions ==
    /\ now % DayUnits = 0
    /\ checkedDay < Day(now)
    /\ subscription' = {IF expiredWhere(row, now)
                        THEN [row EXCEPT !.status = "expired"] ELSE row :
                        row \in subscription}
    /\ checkedDay' = Day(now)
    /\ UNCHANGED <<now, parseVars, fnVars, nextId, scan, user, webVars>>

\* data: updates, the request body as it came
applyBody(row, updates) ==
    [f \in DOMAIN row |-> IF f \in DOMAIN updates THEN updates[f] ELSE row[f]]

\* updates.amount && (typeof updates.amount !== "number" || updates.amount < 0)
invalidAmount(updates) ==
    /\ "amount" \in DOMAIN updates
    /\ updates.amount \notin {<<>>, <<0>>}
    /\ updates.amount[1] < 0

\* prisma.subscription.findUnique({ where: { id } })
findUnique(id) == {row \in subscription : row.id = id}

\* PUT /subscriptions/:id by the authenticated userId; result is the status
\* code of the response: 404, 403 and 400 leave the store alone
updateSubscription(userId, id, updates) ==
    /\ IF findUnique(id) = {}
       THEN result' = <<404>> /\ UNCHANGED subscription
       ELSE LET row == CHOOSE r \in findUnique(id) : TRUE IN
            IF row.userId # userId
            THEN result' = <<403>> /\ UNCHANGED subscription
            ELSE IF invalidAmount(updates)
            THEN result' = <<400>> /\ UNCHANGED subscription
            ELSE /\ result' = <<200>>
                 /\ subscription' = (subscription \ {row}) \cup {applyBody(row, updates)}
    /\ UNCHANGED <<now, parseVars, arg, schedVars, nextId, scan, webVars>>

\* POST /subscriptions by the authenticated userId: the body's provider,
\* amount, startDate and nextBilling (the requests of the model name both
\* dates); no lookup of an existing row precedes the create
createSubscription(userId, body) ==
    /\ IF body.provider = <<>>
          \/ (body.amount \notin {<<>>, <<0>>} /\ body.amount[1] <= 0)
       THEN result' = <<400>> /\ UNCHANGED <<subscription, nextId>>
       ELSE LET provider == body.provider[1] IN
            /\ Cardinality(subscription) < MaxRows
            /\ nextId[userId][provider] <= MaxIds
            /\ result' = <<201>>
            /\ subscription' = subscription \cup
                 {[id |-> <<userId, provider, nextId[userId][provider]>>,
                   userId |-> userId, provider |-> provider, product |-> <<>>,
                   amount |-> IF body.amount = <<0>> THEN <<>> ELSE body.amount,
                   currency |-> <<>>, startDate |-> body.startDate,
                   nextBilling |-> body.nextBilling, tag |-> "other",
                   rawData |-> <<>>, status |-> statusDefault, expiryDate |-> <<>>]}
            /\ nextId' = [nextId EXCEPT ![userId][provider] = @ + 1]
    /\ UNCHANGED <<now, parseVars, arg, schedVars, scan, webVars>>

\* DELETE /subscriptions/:id by the authenticated userId
deleteSubscription(userId, id) ==
    /\ IF findUnique(id) = {}
       THEN result' = <<404>> /\ UNCHANGED subscription
       ELSE LET row == CHOOSE r \in findUnique(id) : TRUE IN
            IF row.userId # userId
            THEN result' = <<403>> /\ UNCHANGED subscription
            ELSE /\ nextId[id[1]][id[2]] <= MaxIds
                 /\ result' = <<200>>
                 /\ subscription' = subscription \ {row}
    /\ UNCHANGED <<now, parseVars, arg, schedVars, nextId, scan, webVars>>

\* half a day passes; noon comes only after the check of the morning
TickSched ==
    /\ now < SchedEnd
    /\ now % DayUnits = 0 => checkedDay = Day(now)
    /\ now' = now + 1
    /\ UNCHANGED <<parseVars, storeVars, fnVars, schedVars, webVars>>

StartScanSched ==
    /\ \A o \in Scans : scan[o].pc = "idle"
    /\ \E userId \in Users, batch \in SchedBatches : StartScan(1, userId, batch)

NextSched ==
    \/ StartScanSched
    \/ \E s \in Scans : FindFirst(s)
    \/ \E s \in Scans : UpdateRow(s)
    \/ \E s \in Scans : CreateRow(s)
    \/ \E s \in Scans : Return(s)
    \/ checkExpiredSubscriptions
    \/ \E userId \in Users, row \in subscription, updates \in UpdateBodies :
          updateSubscription(userId, row.id, updates)
    \/ TickSched

\* the subscription API next to scans, at one instant
InitApi == Init /\ now = 100

\* the ids a request can name: those of the stored rows and one of no row
NextApi ==
    \/ StartScan(1, "u1", <<mNetflixA>>)
    \/ \E s \in Scans : FindFirst(s)
    \/ \E s \in Scans : UpdateRow(s)
    \/ \E s \in Scans : CreateRow(s)
    \/ \E s \in Scans : Return(s)
    \/ \E userId \in Users :
          \E body \in [provider : {<<>>, <<"Netflix">>}, amount : {<<>>, <<-100>>},
                        startDate : {100}, nextBilling : {160}] :
             createSubscription(userId, body)
    \/ \E userId \in Users :
          \E id \in {row.id : row \in subscription} \cup {<<"u1", "Spotify", 1>>} :
             \E updates \in {[userId |-> "u2"], [amount |-> <<-100>>]} :
                updateSubscription(userId, id, updates)
    \/ \E userId \in Users :
          \E id \in {row.id : row \in subscription} \cup {<<"u1", "Spotify", 1>>} :
             deleteSubscription(userId, id)

SpecApi == InitApi /\ [][NextApi]_vars

\* the clock advances and the daily check runs whenever it is due
SpecSched ==
    InitSched /\ [][NextSched]_vars
    /\ WF_vars(TickSched) /\ WF_vars(checkExpiredSubscriptions)

----------------------------------------------------------------------------
(* The daily expiring-subscription check of the Telegram scheduler, next to *)
(* POST /subscriptions, on the clock of the expired check                   *)

\* startDate and endDate of the range of n days at a run at t: midnight n
\* days on, and the last instant of the day after
expiringWindow(n, t) ==
    [startDate |-> (Day(t) + n) * DayUnits,
     endDate |-> (Day(t) + n + 1) * DayUnits + (DayUnits - 1)]

\* cron "0 9 * * *": once a day, in the morning. Every active row of a user
\* with a linked chat whose nextBilling lies in the window of a range is
\* notified with the days of that range.
checkExpiringSubscriptions ==
    /\ now % DayUnits = 0
    /\ checkedDay < Day(now)
    /\ sent' = sent \cup
          {[id |-> f[1].id, nextBilling |-> f[1].nextBilling,
            daysUntilExpiry |-> f[2], day |-> Day(now)] :
             f \in {g \in subscription \X {7, 3, 1} :
                      /\ g[1].status = "active"
                      /\ g[1].nextBilling >= expiringWindow(g[2], now).startDate
                      /\ g[1].nextBilling <= expiringWindow(g[2], now).endDate
                      /\ user[g[1].userId].hasPaidForTelegram
                      /\ user[g[1].userId].telegramChatId # <<>>}}
    /\ checkedDay' = Day(now)
    /\ UNCHANGED <<now, parseVars, storeVars, fnVars, user, stateStore, issued,
                   googleToken, callback, payVars>>

\* subscriptions are entered with a next billing one, two, four and eight
\* days after the first day of the clock
NextExpiring ==
    \/ \E userId \in Users :
          \E body \in [provider : {<<"Netflix">>}, amount : {<<>>}, startDate : {100},
                        nextBilling : {SchedStart + k * DayUnits : k \in {1, 2, 4, 8}}] :
             createSubscription(userId, body)
    \/ checkExpiringSubscriptions
    \/ TickSched

SpecExpiring == InitSched /\ [][NextExpiring]_vars

----------------------------------------------------------------------------
(* The Gmail OAuth flow: startGmailConnect issues a state, Google redirects  *)
(* the browser to handleGmailCallback; the clock of this specification       *)
(* counts minutes                                                            *)

StateTtl == 10          \* minutes after which the cleanup drops a state
CleanupEvery == 5       \* minutes between two runs of the cleanup
MaxStates == 2          \* states startGmailConnect issues

\* the minutes at which the clock of the flow stands: the runs of the cleanup
\* and minutes between them
OAuthInstants == {1, 5, 10, 12, 15}

\* the entries of stateStore under key state
stateData(state) == {e \in stateStore : e.state = state}

\* the body of the setInterval callback, run at minute t
cleanup(store, t) == {e \in store : ~(t - e.createdAt > StateTtl)}

\* stateStore.delete(state), mutated: the state stays
keepState(store, state) == store

\* stateStore.delete(state)
consume(store, state) == {e \in store : e.state # state}

\* GET /gmail/connect by userId: crypto.randomBytes(32) is a value no earlier
\* call has returned, here the number of the call
startGmailConnect(userId) ==
    LET state == Len(issued) + 1 IN
    /\ Len(issued) < MaxStates
    /\ stateStore' = consume(stateStore, state)
                      \cup {[state |-> state, userId |-> userId, createdAt |-> now]}
    /\ issued' = Append(issued, userId)
    /\ UNCHANGED <<now, parseVars, payVars, sent, storeVars, fnVars, schedVars, googleToken, callback>>

\* GET /gmail/connect/callback?code=..&state=.. on slot c, up to its first
\* await: the check and the consumption of the state run without interruption;
\* the slots are taken in the order in which the callbacks arrive
handleGmailCallback(c, query) ==
    /\ callback[c].pc = "idle"
    /\ \A d \in 1..(c - 1) : callback[d].pc # "idle"
    /\ IF query.code = <<>> \/ query.state = <<>> \/ stateData(query.state[1]) = {}
       THEN /\ callback' = [callback EXCEPT ![c] =
                    [pc |-> "done", query |-> query, userId |-> <<>>, age |-> 0,
                     status |-> 400]]
            /\ UNCHANGED stateStore
       ELSE LET data == CHOOSE e \in stateData(query.state[1]) : TRUE IN
            /\ callback' = [callback EXCEPT ![c] =
                    [pc |-> "getToken", query |-> query, userId |-> <<data.userId>>,
                     age |-> now - data.createdAt, status |-> 0]]
            /\ stateStore' = consume(stateStore, query.state[1])
    /\ UNCHANGED <<now, parseVars, payVars, sent, storeVars, fnVars, schedVars, issued, googleToken>>

\* oauth2Client.getToken(code) settles: with an access token, without one, or
\* by throwing
getToken(c, outcome) ==
    /\ callback[c].pc = "getToken"
    /\ callback' = [callback EXCEPT ![c] =
            IF outcome = "tokens" THEN [@ EXCEPT !.pc = "upsert"]
            ELSE IF outcome = "none" THEN [@ EXCEPT !.pc = "done", !.status = 400]
            ELSE [@ EXCEPT !.pc = "done", !.status = 302]]
    /\ UNCHANGED <<now, parseVars, payVars, sent, storeVars, fnVars, schedVars, stateStore, issued,
                   googleToken>>

\* prisma.googleToken.upsert({ where: { userId } }): the tokens of this
\* exchange, named after the state of its callback
upsert(c) ==
    /\ callback[c].pc = "upsert"
    /\ googleToken' = [googleToken EXCEPT ![callback[c].userId[1]] =
                          <<[by |-> c, state |-> callback[c].query.state[1]]>>]
    /\ callback' = [callback EXCEPT ![c].pc = "scan"]
    /\ UNCHANGED <<now, parseVars, payVars, sent, storeVars, fnVars, schedVars, stateStore, issued>>

\* scanUserGmailForSubscriptions(userId), called from the callback, on an
\* inbox without subscription mail
scanAfterConnect(c) ==
    /\ callback[c].pc = "scan"
    /\ StartScan(c, callback[c].userId[1], <<>>)

\* the scan has returned or thrown (the throw is caught): redirect
redirect(c) ==
    /\ callback[c].pc = "scan"
    /\ scan[c].pc \in {"done", "failed"}
    /\ callback' = [callback EXCEPT ![c].pc = "done", ![c].status = 302]
    /\ scan' = [scan EXCEPT ![c] = IdleScan]
    /\ UNCHANGED <<now, parseVars, payVars, sent, fnVars, schedVars, subscription, nextId,
                   stateStore, issued, googleToken>>

\* the clock moves to its next instant; every CleanupEvery minutes the
\* interval timer fires
TickOAuth ==
    /\ \E t \in OAuthInstants : t > now
    /\ now' = MinOf({t \in OAuthInstants : t > now})
    /\ stateStore' = IF now' % CleanupEvery = 0 THEN cleanup(stateStore, now')
                      ELSE stateStore
    /\ UNCHANGED <<parseVars, payVars, sent, storeVars, fnVars, schedVars, issued, googleToken, callback>>

InitOAuth ==
    /\ now = 1
    /\ msgs = <<>> /\ runs = <<>>
    /\ subscription = {}
    /\ nextId = [u \in Users |-> [n \in CatalogNames |-> 1]]
    /\ scan = [s \in Scans |-> IdleScan]
    /\ arg = <<>> /\ result = <<>>
    /\ user = [u \in Users |-> NewUser]
    /\ checkedDay = 0 /\ InitWeb

\* a callback without a code, one without a state, and callbacks that name a
\* state that was never issued (0) or one that was
NextOAuth ==
    \/ \E userId \in Users : startGmailConnect(userId)
    \/ \E c \in Scans :
          \E query \in {[code |-> <<>>, state |-> <<1>>], [code |-> <<"code">>, state |-> <<>>]}
                        \cup {[code |-> <<"code">>, state |-> <<n>>] : n \in 0..Len(issued)} :
             handleGmailCallback(c, query)
    \/ \E c \in Scans : \E outcome \in {"tokens", "none", "throws"} : getToken(c, outcome)
    \/ \E c \in Scans : upsert(c)
    \/ \E c \in Scans : scanAfterConnect(c)
    \/ \E c \in Scans : redirect(c)
    \/ TickOAuth

SpecOAuth == InitOAuth /\ [][NextOAuth]_vars

----------------------------------------------------------------------------
(* Payments: initialisation, the customer paying at the gateway, the verify  *)
(* endpoints and the webhooks of Paystack and Stripe.  A reference is the    *)
(* position of its Payment row; the Stripe session of a reference has that   *)
(* reference as id.                                                          *)

MaxPayments == 2        \* payments that are initialised

PaymentTypes == {"scanning", "telegram", "bundle"}

\* AFRICAN_COUNTRIES go to Paystack, every other country to Stripe
determinePaymentGateway(userCountry) ==
    IF userCountry \in {"NG", "GH", "ZA", "KE", "EG", "TZ", "UG", "CI", "SN", "RW"}
    THEN "paystack" ELSE "stripe"

\* the access update mutated: every payment type unlocks both features
updateUserAccessBoth(users, userId, paymentType) ==
    [users EXCEPT ![userId].hasPaidForScanning = TRUE,
                  ![userId].hasPaidForTelegram = TRUE]

\* the User table after updateUserAccess(userId, paymentType)
updateUserAccess(users, userId, paymentType) ==
    [users EXCEPT
        ![userId].hasPaidForScanning = @ \/ paymentType \in {"scanning", "bundle"},
        ![userId].hasPaidForTelegram = @ \/ paymentType \in {"telegram", "bundle"}]

\* updateUserAccess for the payment of reference, then its row set to success
processPayment(reference) ==
    /\ user' = updateUserAccess(user, payment[reference].userId,
                                payment[reference].paymentType)
    /\ payment' = [payment EXCEPT ![reference].paymentStatus = "success"]

\* the references that have a Stripe checkout session
sessions == {i \in DOMAIN payment : payment[i].paymentGateway = "stripe" /\ gateway[i] # "none"}

\* the checkout session initializeStripePayment created for reference i
sessionOf(i) ==
    [id |-> i, client_reference_id |-> <<i>>,
     metadata |-> [reference |-> <<i>>, userId |-> <<payment[i].userId>>],
     payment_status |-> IF gateway[i] = "paid" THEN "paid" ELSE "unpaid"]

\* POST /payments/initialize: the controller's checks, the pending row, then
\* the call to the gateway, which creates the transaction or session or throws
initializePayment(userId, paymentType, userCountry, created) ==
    /\ Len(payment) < MaxPayments
    /\ ~(paymentType = "scanning" /\ user[userId].hasPaidForScanning)
    /\ ~(paymentType = "telegram" /\ user[userId].hasPaidForTelegram)
    /\ ~(paymentType = "bundle" /\ user[userId].hasPaidForScanning
                                /\ user[userId].hasPaidForTelegram)
    /\ payment' = Append(payment,
            [userId |-> userId, paymentType |-> paymentType,
             paymentGateway |-> determinePaymentGateway(userCountry),
             paymentStatus |-> "pending"])
    /\ gateway' = Append(gateway, IF created THEN "open" ELSE "none")
    /\ UNCHANGED <<now, parseVars, storeVars, fnVars, schedVars, stateStore, issued,
                   googleToken, callback, sent>>

\* the customer completes the checkout of reference at the gateway
Pay(reference) ==
    /\ reference \in DOMAIN gateway
    /\ gateway[reference] = "open"
    /\ gateway' = [gateway EXCEPT ![reference] = "paid"]
    /\ UNCHANGED <<now, parseVars, storeVars, fnVars, schedVars, stateStore, issued,
                   googleToken, callback, payment, sent>>

\* GET /payments/verify/paystack/:reference
verifyPaystackPayment(reference) ==
    /\ IF /\ reference \in DOMAIN payment
          /\ payment[reference].paymentGateway = "paystack"
          /\ gateway[reference] = "paid"
       THEN processPayment(reference)
       ELSE UNCHANGED <<user, payment>>
    /\ UNCHANGED <<now, parseVars, storeVars, fnVars, checkedDay, stateStore, issued,
                   googleToken, callback, gateway, sent>>

\* paymentService.verifyStripePayment(sessionId): retrieve throws for an id
\* that is no session
verifyStripe(sessionId) ==
    IF sessionId \in sessions /\ sessionOf(sessionId).payment_status = "paid"
    THEN processPayment(sessionOf(sessionId).metadata.reference[1])
    ELSE UNCHANGED <<user, payment>>

\* GET /payments/verify/stripe/:sessionId
verifyStripePayment(sessionId) ==
    /\ verifyStripe(sessionId)
    /\ UNCHANGED <<now, parseVars, storeVars, fnVars, checkedDay, stateStore, issued,
                   googleToken, callback, gateway, sent>>

\* GET /payments/verify/stripe/reference/:reference; result is the request,
\* the status code and the reference of the session that was verified
verifyStripePaymentByReference(reference) ==
    /\ IF reference \notin DOMAIN payment \/ sessions = {}
       THEN /\ result' = <<[reference |-> reference, code |-> 404, verified |-> <<>>]>>
            /\ UNCHANGED <<user, payment>>
       ELSE LET session == sessionOf(CHOOSE i \in sessions : \A j \in sessions : j <= i) IN
            /\ verifyStripe(session.id)
            /\ result' = <<[reference |-> reference, code |-> 200,
                            verified |-> session.client_reference_id]>>
    /\ UNCHANGED <<now, parseVars, storeVars, arg, checkedDay, stateStore, issued,
                   googleToken, callback, gateway, sent>>

\* POST /webhooks/paystack with a signed event
handlePaystackWebhook(event) ==
    /\ IF /\ event.event = "charge.success" /\ event.status = "success"
          /\ event.reference \in DOMAIN payment
          /\ payment[event.reference].paymentStatus = "pending"
       THEN processPayment(event.reference)
       ELSE UNCHANGED <<user, payment>>
    /\ UNCHANGED <<now, parseVars, storeVars, fnVars, checkedDay, stateStore, issued,
                   googleToken, callback, gateway, sent>>

\* the three lookups of handleStripeWebhook: by client_reference_id, by
\* metadata.reference, by metadata.userId among the pending rows created
\* around the session (the clock stands still: every row is in the window)
lookupPayment(session) ==
    LET byId == {i \in DOMAIN payment : session.client_reference_id = <<i>>}
        byMeta == {i \in DOMAIN payment :
                      session.metadata # <<>> /\ session.metadata.reference = <<i>>}
        byUser == {i \in DOMAIN payment :
                      /\ session.metadata # <<>>
                      /\ session.metadata.userId = <<payment[i].userId>>
                      /\ payment[i].paymentStatus = "pending"}
    IN  IF byId # {} THEN byId
        ELSE IF byMeta # {} THEN byMeta
        ELSE IF byUser # {} THEN {CHOOSE i \in byUser : \A j \in byUser : j <= i}
        ELSE {}

\* POST /webhooks/stripe with a signed event
handleStripeWebhook(event) ==
    /\ IF /\ event.type = "checkout.session.completed"
          /\ ~(event.session.client_reference_id = <<>> /\ event.session.metadata = <<>>)
          /\ \E i \in lookupPayment(event.session) :
                payment[i].paymentStatus = "pending"
          /\ event.session.payment_status = "paid"
       THEN processPayment(CHOOSE i \in lookupPayment(event.session) : TRUE)
       ELSE UNCHANGED <<user, payment>>
    /\ UNCHANGED <<now, parseVars, storeVars, fnVars, checkedDay, stateStore, issued,
                   googleToken, callback, gateway, sent>>

InitPay == InitOAuth

\* the events a gateway signs: Paystack's on a paid transaction, Stripe's on a
\* session of this account or on a test session without metadata
NextPay ==
    \/ \E userId \in Users, paymentType \in PaymentTypes, userCountry \in {"NG", "US"},
          created \in BOOLEAN :
          initializePayment(userId, paymentType, userCountry, created)
    \/ \E reference \in 1..MaxPayments : Pay(reference)
    \/ \E reference \in 1..MaxPayments : verifyPaystackPayment(reference)
    \/ \E sessionId \in 1..MaxPayments : verifyStripePayment(sessionId)
    \/ \E reference \in 1..MaxPayments : verifyStripePaymentByReference(reference)
    \/ \E i \in {i \in DOMAIN payment :
                     payment[i].paymentGateway = "paystack" /\ gateway[i] = "paid"} :
          \E type \in {"charge.success", "transfer.success"} :
             handlePaystackWebhook([event |-> type, reference |-> i, status |-> "success"])
    \/ \E session \in {sessionOf(i) : i \in sessions}
                        \cup {[id |-> 0, client_reference_id |-> <<>>, metadata |-> <<>>,
                                payment_status |-> "paid"]} :
          \E type \in {"checkout.session.completed", "checkout.session.expired"} :
             handleStripeWebhook([type |-> type, session |-> session])

SpecPay == InitPay /\ [][NextPay]_vars

----------------------------------------------------------------------------
(* Properties of the parser, checked under SpecParse *)

\* the text the pipeline reads a message as: decoded body, else the snippet
textOf(m) ==
    IF decodeEmailBody(m.payload) # <<>> THEN decodeEmailBody(m.payload)
    ELSE IF m.snippet = <<>> THEN <<>> ELSE toLowerCase(m.snippet[1])

fromOf(m) ==
    IF m.payload = <<>> \/ headerValue(m.payload[1].headers, "from") = <<>> THEN <<>>
    ELSE toLowerCase(headerValue(m.payload[1].headers, "from")[1])

\* the catalog name of provider occurs in the From header or in the text of m
NamesProvider(m, provider) ==
    \/ includes(fromOf(m), <<Lower(provider)>>)
    \/ includes(textOf(m), <<Lower(provider)>>)

NamesSomeProvider(m) == \E n \in CatalogNames : NamesProvider(m, n)

\* the records a finished run returned
Returned(r) == IF runs[r].result.threw THEN <<>> ELSE runs[r].result.subs

FromMessage(rec, m) == rec.rawData.messageId = m.id

\* C1: a run returns at most one record per distinct provider display name,
\* however many qualifying messages of the batch map to that provider.
C1_OneRecordPerProvider ==
    \A r \in DOMAIN runs :
        \A i, j \in DOMAIN Returned(r) :
            Returned(r)[i].provider = Returned(r)[j].provider => i = j

\* a run on a batch with two qualifying messages of one provider
C1_Witness ==
    \E r \in DOMAIN runs :
        /\ Len(Returned(r)) = 1
        /\ \E k1, k2 \in DOMAIN msgs :
            /\ k1 # k2
            /\ NamesProvider(msgs[k1], Returned(r)[1].provider)
            /\ NamesProvider(msgs[k2], Returned(r)[1].provider)
            /\ \A k \in {k1, k2} :
                /\ hasKeyword(textOf(msgs[k]))
                /\ extractAmount(textOf(msgs[k])).amount \notin {<<>>, <<0>>}

\* C6 (as claimed): a message without payload whose snippet holds a catalog
\* name, a relevance keyword and a currency-adjacent amount yields a record for
\* that provider with nextBilling = startDate + 30 days.
C6_SnippetOnlyYieldsRecord ==
    \A r \in DOMAIN runs :
        ~runs[r].result.threw =>
            \A k \in DOMAIN msgs : \A n \in CatalogNames :
                ( /\ msgs[k].payload = <<>>
                  /\ msgs[k].snippet # <<>>
                  /\ includes(toLowerCase(msgs[k].snippet[1]), <<Lower(n)>>)
                  /\ hasKeyword(toLowerCase(msgs[k].snippet[1]))
                  /\ extractAmount(toLowerCase(msgs[k].snippet[1])).amount \notin {<<>>, <<0>>} )
                => \E i \in DOMAIN Returned(r) :
                      /\ Returned(r)[i].provider = n
                      /\ Returned(r)[i].nextBilling = Returned(r)[i].startDate + 30 * DayUnits

\* C7: every returned record comes from a message of the batch that names its
\* catalog provider (From header or text) and whose text has a relevance
\* keyword; a message naming no provider, or without keyword, contributes
\* nothing; no "unknown" provider is emitted.
C7_OnlyProviderAndKeywordMessages ==
    \A r \in DOMAIN runs :
        /\ \A i \in DOMAIN Returned(r) :
            /\ Returned(r)[i].provider # "unknown"
            /\ Returned(r)[i].provider \in CatalogNames
            /\ \E k \in DOMAIN msgs :
                /\ FromMessage(Returned(r)[i], msgs[k])
                /\ NamesProvider(msgs[k], Returned(r)[i].provider)
                /\ hasKeyword(textOf(msgs[k]))
        /\ \A k \in DOMAIN msgs :
            (~NamesSomeProvider(msgs[k]) \/ ~hasKeyword(textOf(msgs[k])))
            => \A i \in DOMAIN Returned(r) : ~FromMessage(Returned(r)[i], msgs[k])

\* a run that returned a record from a batch that also holds a message naming
\* no provider, and one that holds a message without keyword
C7_Witness ==
    \E r \in DOMAIN runs :
        /\ Returned(r) # <<>>
        /\ \E k \in DOMAIN msgs :
            \/ ~NamesSomeProvider(msgs[k]) /\ hasKeyword(textOf(msgs[k]))
            \/ NamesSomeProvider(msgs[k]) /\ ~hasKeyword(textOf(msgs[k]))

\* C8: every returned record has an amount, strictly greater than 0; a
\* message without currency-adjacent amount, or with amount 0, contributes
\* nothing.
C8_AmountPresentAndPositive ==
    \A r \in DOMAIN runs :
        /\ \A i \in DOMAIN Returned(r) :
            Returned(r)[i].amount # <<>> /\ Returned(r)[i].amount[1] > 0
        /\ \A k \in DOMAIN msgs :
            extractAmount(textOf(msgs[k])).amount \in {<<>>, <<0>>}
            => \A i \in DOMAIN Returned(r) : ~FromMessage(Returned(r)[i], msgs[k])

\* a run that returned a record from a batch that also holds a message with
\* provider and keyword whose amount is missing or zero
C8_Witness ==
    \E r \in DOMAIN runs :
        /\ Returned(r) # <<>>
        /\ \E k \in DOMAIN msgs :
            /\ NamesSomeProvider(msgs[k]) /\ msgs[k].payload # <<>>
            /\ hasKeyword(textOf(msgs[k]))
            /\ extractAmount(textOf(msgs[k])).amount \in {<<>>, <<0>>}

Substance(rec) ==
    [provider |-> rec.provider, amount |-> rec.amount,
     currency |-> rec.currency, product |-> rec.product]

\* C9 (as claimed): two runs on the same batch, at any two times, return
\* records equal in (provider, amount, currency, product).
C9_SameOutputAtAnyTime ==
    \A r1, r2 \in DOMAIN runs :
        /\ runs[r1].result.threw = runs[r2].result.threw
        /\ [i \in DOMAIN Returned(r1) |-> Substance(Returned(r1)[i])]
           = [i \in DOMAIN Returned(r2) |-> Substance(Returned(r2)[i])]

\* the turn of the loop that message k of the batch takes in run r
Turn(r, k) == loopBody(msgs[k], runs[r].at)

\* message m carries no Date header the parser can read as a date
NoUsableDate(m) ==
    \/ m.payload = <<>>
    \/ headerValue(m.payload[1].headers, "date") = <<>>
    \/ DateParse(headerValue(m.payload[1].headers, "date")[1]) = <<>>

\* C11 (as claimed): when a message that passes the provider, keyword and
\* amount gates has an absent or unparseable Date header, the run does not
\* throw, a record taken from that message has startDate equal to the clock of
\* the run, and every provider with a qualifying message still gets a record.
C11_DateFallsBackToNow ==
    \A r \in DOMAIN runs : \A k \in DOMAIN msgs :
        (Turn(r, k).kind # "skip" /\ NoUsableDate(msgs[k]))
        => /\ ~runs[r].result.threw
           /\ \A i \in DOMAIN Returned(r) :
                 FromMessage(Returned(r)[i], msgs[k])
                 => Returned(r)[i].startDate = runs[r].at
           /\ \A j \in DOMAIN msgs :
                 Turn(r, j).kind = "push"
                 => \E i \in DOMAIN Returned(r) :
                       Returned(r)[i].provider = Turn(r, j).sub.provider

\* the candidates of provider n in run r, as positions of the batch
CandidatesOf(r, n) ==
    {k \in DOMAIN msgs : Turn(r, k).kind = "push" /\ Turn(r, k).sub.provider = n}

ScoreIn(r, k) == calculateSubscriptionScore(Turn(r, k).sub, runs[r].at)

\* the position the claim selects: maximal score, earliest among equals
Selected(r, n) ==
    MinOf({k \in CandidatesOf(r, n) :
              \A j \in CandidatesOf(r, n) : ScoreIn(r, j) <= ScoreIn(r, k)})

\* C12: in a bucket with more than one candidate the returned record is,
\* whole and unmerged, the candidate of maximal score, the earliest in the
\* input among equals; the other candidates are not returned.
C12_MaxScoreFirstAmongTies ==
    \A r \in DOMAIN runs :
        ~runs[r].result.threw =>
            \A n \in CatalogNames :
                Cardinality(CandidatesOf(r, n)) > 1
                => \A i \in DOMAIN Returned(r) :
                      Returned(r)[i].provider = n
                      => Returned(r)[i] = Turn(r, Selected(r, n)).sub

\* one run where the later of two candidates wins on a strictly higher score
\* and one run where the two tie and the earlier is returned
C12_Witness ==
    \E r1, r2 \in DOMAIN runs : \E n \in CatalogNames :
        /\ ~runs[r1].result.threw /\ ~runs[r2].result.threw
        /\ Cardinality(CandidatesOf(r1, n)) = 2
        /\ Cardinality(CandidatesOf(r2, n)) = 2
        /\ \E k1, k2 \in CandidatesOf(r1, n) :
              /\ k1 < k2 /\ ScoreIn(r1, k1) < ScoreIn(r1, k2)
              /\ Returned(r1)[1] = Turn(r1, k2).sub
        /\ \E k1, k2 \in CandidatesOf(r2, n) :
              /\ k1 < k2 /\ ScoreIn(r2, k1) = ScoreIn(r2, k2)
              /\ Turn(r2, k1).sub # Turn(r2, k2).sub
              /\ Returned(r2)[1] = Turn(r2, k1).sub

\* C18: every returned record has nextBilling exactly 30 days after its
\* startDate.
C18_NextBillingThirtyDaysOn ==
    \A r \in DOMAIN runs :
        \A i \in DOMAIN Returned(r) :
            Returned(r)[i].nextBilling = Returned(r)[i].startDate + 30 * DayUnits

\* a run that returned a record dated by its header and one dated by the clock
C18_Witness ==
    \E r \in DOMAIN runs :
        \E i, j \in DOMAIN Returned(r) :
            /\ Returned(r)[i].startDate # runs[r].at
            /\ Returned(r)[j].startDate = runs[r].at

----------------------------------------------------------------------------
(* Properties of the scorer, checked under SpecScore *)

\* the score as the claim composes it, amounts in cents
ClaimedScore(c, t) ==
    LET hasAmount == c.amount # <<>> /\ c.amount[1] > 0
        days == (t - c.startDate) \div DayUnits
    IN  (IF hasAmount THEN 20 ELSE -20)
        + (IF hasAmount /\ c.amount[1] >= 5 * 100 /\ c.amount[1] <= 10000 * 100 THEN 30
           ELSE IF hasAmount /\ c.amount[1] < 5 * 100 THEN -10
           ELSE 0)
        + (IF c.product \notin {<<>>, << <<>> >>, << <<"unknown">> >>} THEN 5 ELSE 0)
        + (IF c.currency # <<>> THEN 5 ELSE 0)
        + Max(0, 10 - (days \div 3))

\* C13: the score of a candidate is +20 for an amount above 0 and -20
\* otherwise, +30 for an amount in [5, 10000], -10 for one in (0, 5), nothing
\* above 10000, +5 for a product other than "unknown", +5 for a currency, and
\* max(0, 10 - floor(days since start / 3)) for recency.
C13_ScoreIsSumOfTerms ==
    result # <<>> => result[1].score = ClaimedScore(arg, now)

\* a scored candidate with an amount below 5, the placeholder product, a
\* currency and a start more than 30 days back: 20 - 10 + 0 + 5 + 0
C13_Witness ==
    /\ result # <<>>
    /\ arg.amount = <<450>> /\ arg.product = << <<"unknown">> >>
    /\ arg.currency = <<"USD">> /\ (now - arg.startDate) \div DayUnits > 30
    /\ result[1].score = 15

\* C14 (as claimed): the recency term of a score lies between 0 and 10, also
\* for a candidate whose start is later than the instant of scoring.
C14_RecencyWithinZeroAndTen ==
    result # <<>> => result[1].recency \in 0..10

----------------------------------------------------------------------------
(* Properties of decodeEmailBody, checked under SpecDecode *)

\* the rule of a single-body payload: HTML-to-text when the MIME type
\* contains html or the text holds the document marker, the raw text otherwise
SingleRule(mimeType, raw) ==
    IF Lower(mimeType) = "text/html" \/ \E i \in DOMAIN raw : raw[i] = "<html>"
    THEN SelectSeq(raw, LAMBDA a : a \notin TagAtoms) ELSE raw

\* the text the claim assigns to a list of parts, before lowercasing
RECURSIVE ClaimedParts(_)
ClaimedParts(parts) ==
    IF parts = <<>> THEN <<>>
    ELSE LET head == IF parts[1].body # <<>>
                     THEN SingleRule(parts[1].mimeType, parts[1].body)
                     ELSE ClaimedParts(parts[1].parts)
         IN  IF Len(parts) = 1 THEN head
             ELSE head \o <<" ">> \o ClaimedParts(Tail(parts))

\* C23 (as claimed): a multi-part payload decodes to the lowercased,
\* space-joined texts of its parts, nested parts included, each part decoded
\* by the rule of a single-body payload.
C23_PartsDecodedAsSingleBody ==
    (result # <<>> /\ arg # <<>> /\ arg[1].body = <<>> /\ arg[1].parts # <<>>)
    => result[1] = toLowerCase(ClaimedParts(arg[1].parts))

----------------------------------------------------------------------------
(* Properties of extractAmount, checked under SpecAmount *)

\* the currency code a marker stands for
CodeOf(marker) ==
    CASE marker \in {"$", "USD", "usd"} -> "USD"
      [] marker \in {"#naira", "NGN", "ngn"} -> "NGN"
      [] marker \in {"#euro", "EUR", "eur"} -> "EUR"
      [] marker \in {"#pound", "GBP", "gbp"} -> "GBP"

\* markers of text with a number right after them, at most one blank between
MarkersBeforeNumber(text) ==
    {i \in DOMAIN text :
        /\ text[i] \in AllMarkers
        /\ \/ IsDigitAt(text, i + 1)
           \/ i + 1 \in DOMAIN text /\ text[i + 1] = " " /\ IsDigitAt(text, i + 2)}

\* markers of text with a number right before them, at most one blank between
MarkersAfterNumber(text) ==
    {i \in DOMAIN text :
        /\ text[i] \in AllMarkers
        /\ \/ IsDigitAt(text, i - 1)
           \/ i - 1 \in DOMAIN text /\ text[i - 1] = " " /\ IsDigitAt(text, i - 2)}

\* C15 (as claimed): a returned currency is the code of a marker of the text
\* that has the number next to it, also when the text is lowercased and the
\* letter codes read usd, ngn, eur, gbp.
C15_CurrencyIsCodeOfMarker ==
    result # <<>> =>
        (result[1].out.amount # <<>>
         => \E i \in MarkersBeforeNumber(result[1].text) :
               result[1].out.currency = <<CodeOf(result[1].text[i])>>)

\* C16 (as claimed): a number next to a currency marker, on either side of
\* it, is recognised.
C16_NumberOnEitherSide ==
    result # <<>> =>
        (MarkersBeforeNumber(result[1].text) \cup MarkersAfterNumber(result[1].text) # {}
         => result[1].out.amount # <<>>)

\* C16 (amended): a number is recognised exactly when it follows a currency
\* marker, at most one blank between; a text whose only amount is written
\* number first, marker second, yields no amount and no currency.
C16_OnlyMarkerThenNumber ==
    result # <<>> =>
        /\ result[1].out.amount # <<>> <=> MarkersBeforeNumber(result[1].text) # {}
        /\ MarkersBeforeNumber(result[1].text) = {}
           => result[1].out = [amount |-> <<>>, currency |-> <<>>]

\* extractAmount has run on a text with a number before a marker and none
\* after one, such as 15.99 usd, and returned nothing
C16_Witness ==
    /\ result # <<>>
    /\ MarkersAfterNumber(result[1].text) # {}
    /\ MarkersBeforeNumber(result[1].text) = {}
    /\ result[1].out = [amount |-> <<>>, currency |-> <<>>]

\* C17: the returned currency is USD, NGN, EUR or GBP, or absent, and it is
\* absent exactly when the amount is absent.
C17_CurrencyOneOfFourOrAbsent ==
    result # <<>> =>
        /\ result[1].out.currency \in {<<>>, <<"USD">>, <<"NGN">>, <<"EUR">>, <<"GBP">>}
        /\ result[1].out.currency = <<>> <=> result[1].out.amount = <<>>

\* extractAmount has matched a lowercased letter code other than usd
C17_Witness ==
    /\ result # <<>>
    /\ result[1].out.amount # <<>>
    /\ \E i \in MarkersBeforeNumber(result[1].text) :
          result[1].text[i] \in {"ngn", "eur", "gbp"}
    /\ \A i \in DOMAIN result[1].text : result[1].text[i] \notin {"#euro"}

----------------------------------------------------------------------------
(* Properties of the merge, checked under Spec and SpecConc *)

RowsOf(userId, provider) ==
    {row \in subscription : row.userId = userId /\ row.provider = provider}

\* C2: from an empty store, with scans that do not overlap, the store never
\* holds more than one row per (userId, provider).
C2_OneRowPerUserProvider ==
    \A u \in Users, n \in CatalogNames : Cardinality(RowsOf(u, n)) <= 1

\* a completed scan whose candidate met its user's existing row and updated it
C2_Witness ==
    \E s \in Scans :
        /\ scan[s].pc = "done"
        /\ \E i \in DOMAIN scan[s].saved :
            /\ scan[s].saved[i].op = "updated"
            /\ RowsOf(scan[s].user, scan[s].parsed[i].provider) = {scan[s].saved[i].row}

\* C3 (as claimed): overlapping scans never leave two rows for one
\* (userId, provider).
C3_NoRacingDuplicate ==
    \A r1, r2 \in subscription :
        (r1.userId = r2.userId /\ r1.provider = r2.provider) => r1 = r2

\* the scan has just updated a row for its latest candidate
JustUpdated(s) ==
    /\ scan[s].pc \in {"find", "done"}
    /\ scan[s].saved # <<>>
    /\ scan[s].saved[Len(scan[s].saved)].op = "updated"

\* C4: an update writes the candidate's amount, currency, startDate,
\* nextBilling, tag and rawData over the stored ones, and the candidate's
\* product when it carries one; otherwise the stored product stays.
C4_UpdateOverwrites ==
    \A s \in Scans :
        JustUpdated(s) =>
            LET k == Len(scan[s].saved)
                p == scan[s].parsed[k]
                row == scan[s].saved[k].row
                old == scan[s].existing[1]
            IN  /\ row \in subscription
                /\ row.id = old.id
                /\ row.amount = p.amount
                /\ row.currency = p.currency
                /\ row.startDate = p.startDate
                /\ row.nextBilling = p.nextBilling
                /\ row.tag = p.tag
                /\ row.rawData = p.rawData
                /\ row.product = IF truthy(p.product) THEN p.product ELSE old.product

\* a rescan with another amount and no product, over a row that has a product
C4_Witness ==
    \E s \in Scans :
        /\ JustUpdated(s)
        /\ LET k == Len(scan[s].saved)
               p == scan[s].parsed[k]
               row == scan[s].saved[k].row
               old == scan[s].existing[1]
           IN  /\ old.amount = <<1599>> /\ row.amount = <<1799>>
               /\ p.product = <<>> /\ truthy(old.product) /\ row.product = old.product

\* C5 (as claimed): when the store fails on one candidate, every other
\* candidate of the batch is still created or updated.
C5_FailureIsolated ==
    \A s \in Scans :
        (scan[s].pc = "failed" /\ scan[s].failedAt >= 1) =>
            \A i \in DOMAIN scan[s].parsed :
                i # scan[s].failedAt =>
                    \E row \in RowsOf(scan[s].user, scan[s].parsed[i].provider) :
                        /\ row.amount = scan[s].parsed[i].amount
                        /\ row.rawData = scan[s].parsed[i].rawData

\* C10: a second merge of the same parser output for the same user, right
\* after the first, creates no row and leaves every row and every field
\* (status included) as the first merge left them.
C10_SecondMergeChangesNothing ==
    \A s \in Scans :
        (scan[s].again /\ scan[s].pc = "done") =>
            /\ subscription = scan[s].startStore
            /\ \A i \in DOMAIN scan[s].saved : scan[s].saved[i].op = "updated"

\* a second merge that ran to completion over the rows of the first
C10_Witness ==
    \E s \in Scans :
        /\ scan[s].again /\ scan[s].pc = "done"
        /\ Len(scan[s].saved) = Len(scan[s].parsed)
        /\ \A i \in DOMAIN scan[s].saved : scan[s].saved[i].row \in subscription

\* the write of scan s that is pending on a candidate for which findFirst
\* found no row has been done: the call moved on without failing
CreatedBy(s) ==
    /\ scan[s].pc = "write" /\ scan[s].existing = <<>>
    /\ scan'[s] # scan[s] /\ scan'[s].pc # "failed"

----------------------------------------------------------------------------
(* Properties of the subscription status, checked under SpecSched *)

\* C19 (as claimed): no step of a scan changes the status of a stored row,
\* and a row goes from active to expired only in a step of the scheduler's
\* expired-subscription check.
C19_StatusOnlyByExpiredCheck ==
    [][\A row \in subscription : \A after \in subscription' :
          after.id = row.id
          => /\ scan' # scan => after.status = row.status
             /\ (row.status = "active" /\ after.status = "expired")
                => checkedDay' # checkedDay]_vars

\* the billing or expiry date of row lies at or before t
Passed(row, t) ==
    \/ row.nextBilling <= t
    \/ row.expiryDate # <<>> /\ row.expiryDate[1] <= t

\* user u holds an active row of provider n whose date has passed, on a day
\* after which the daily check still runs at least once
Overdue(u, n) ==
    /\ Day(now) < Day(SchedEnd)
    /\ \E row \in RowsOf(u, n) : row.status = "active" /\ Passed(row, now)

\* C20 (as claimed): with the expired-subscription check running every day,
\* an active subscription whose nextBilling or expiryDate has passed is
\* eventually no longer active and overdue, whatever the age of the date and
\* whether or not its user has linked a Telegram chat.
C20_OverdueEventuallyExpired ==
    \A u \in Users : \A n \in CatalogNames :
        Overdue(u, n) ~> (\A row \in RowsOf(u, n) :
                             ~(row.status = "active" /\ Passed(row, now)))

(***************************************************************************)
(* Properties of the subscription API, checked under SpecApi *)
(***************************************************************************)

\* C22 (as claimed): after any sequence of scans and of create, update and
\* delete requests, the store holds at most one row per user and provider.
C22_OneRowPerUserAndProviderAfterRequests ==
    \A a \in subscription : \A b \in subscription :
        (a.userId = b.userId /\ a.provider = b.provider) => a = b

\* the ids a request can name
RequestIds == {row.id : row \in subscription} \cup {<<"u1", "Spotify", 1>>}

\* the step is a PUT or DELETE of id by userId
ChangeRequest(userId, id) ==
    \/ \E updates \in {[userId |-> "u2"], [amount |-> <<-100>>]} :
          updateSubscription(userId, id, updates)
    \/ deleteSubscription(userId, id)

\* a PUT or DELETE that names no row is answered 404, one that names a row of
\* another user 403, and neither changes the store
RefusedUnlessOwner ==
    \A userId \in Users : \A id \in RequestIds :
        ChangeRequest(userId, id)
        => /\ findUnique(id) = {} => (result' = <<404>> /\ subscription' = subscription)
           /\ (\E row \in findUnique(id) : row.userId # userId)
                => (result' = <<403>> /\ subscription' = subscription)

\* C24 (as claimed): update and delete change or remove a row only for its
\* owner (404 for a missing row, 403 for a row of another user, the store
\* unchanged in both cases), and no step changes the userId of a row.
C24_RowStaysWithItsCreator ==
    [][/\ RefusedUnlessOwner
       /\ \A row \in subscription : \A after \in subscription' :
             after.id = row.id => after.userId = row.userId]_vars

(***************************************************************************)
(* Properties of the Gmail OAuth flow, checked under SpecOAuth *)
(***************************************************************************)

\* the callback on slot c found its state in stateStore
Accepted(c) == callback[c].userId # <<>>

\* no two callbacks were accepted with the same state
AcceptedOnce ==
    \A c \in Scans : \A d \in Scans :
        (Accepted(c) /\ Accepted(d) /\ callback[c].query.state = callback[d].query.state)
        => c = d

\* the tokens a user holds were stored by an accepted callback whose state
\* was issued to that user
TokensOfRequester ==
    \A u \in Users :
        googleToken[u] # <<>>
        => LET t == googleToken[u][1] IN
           /\ Accepted(t.by)
           /\ callback[t.by].query.state = <<t.state>>
           /\ issued[t.state] = u

\* the callback arriving on slot c names a state that was never issued or one
\* that an earlier callback consumed: it is answered 400 and stores nothing
RefusedIfUnknownOrConsumed(c) ==
    (/\ callback[c].pc = "idle" /\ callback'[c].pc # "idle"
     /\ callback'[c].query.state # <<>>
     /\ \/ callback'[c].query.state[1] \notin DOMAIN issued
        \/ \E d \in Scans : Accepted(d) /\ callback[d].query.state = callback'[c].query.state)
    => /\ callback'[c].pc = "done" /\ callback'[c].status = 400
       /\ ~Accepted(c)'
       /\ googleToken' = googleToken

\* C26: a state issued by startGmailConnect is accepted by handleGmailCallback
\* at most once, also when callbacks with the same state overlap; a callback
\* with an unknown or consumed state is answered 400 and stores no token; an
\* accepted callback stores tokens only for the user the state was issued to.
C26_StateAcceptedOnceForItsUser ==
    [][/\ AcceptedOnce'
       /\ TokensOfRequester'
       /\ \A c \in Scans : RefusedIfUnknownOrConsumed(c)]_vars

\* u1's state was accepted on one slot, whose tokens are stored for u1, and
\* refused with 400 on the other while the first call was still running;
\* u2 holds no token
C26_Witness ==
    \E c \in Scans : \E d \in Scans :
        /\ Accepted(c) /\ callback[c].pc = "done" /\ callback[c].status = 302
        /\ issued[callback[c].query.state[1]] = "u1"
        /\ googleToken["u1"] = <<[by |-> c, state |-> callback[c].query.state[1]]>>
        /\ googleToken["u2"] = <<>>
        /\ ~Accepted(d) /\ callback[d].status = 400
        /\ callback[d].query = callback[c].query

\* C27 (as claimed): a state issued more than 10 minutes before the callback
\* arrives is rejected, so every accepted callback found a state no older
\* than 10 minutes.
C27_NoStateOlderThanTenMinutes ==
    \A c \in Scans : Accepted(c) => callback[c].age <= StateTtl

(***************************************************************************)
(* Properties of the payments, checked under SpecPay *)
(***************************************************************************)

\* the gateway holds a paid transaction or session for a payment of user u
\* whose type is one of types
PaidFor(u, types) ==
    \E i \in DOMAIN payment :
        /\ payment[i].userId = u /\ payment[i].paymentType \in types
        /\ gateway[i] = "paid"

\* every flag is backed by a paid payment of its user and type, and every
\* successful payment by the flags of its type
FlagsFollowPayments ==
    /\ \A u \in Users :
          /\ user[u].hasPaidForScanning => PaidFor(u, {"scanning", "bundle"})
          /\ user[u].hasPaidForTelegram => PaidFor(u, {"telegram", "bundle"})
    /\ \A i \in DOMAIN payment :
          payment[i].paymentStatus = "success"
          => LET u == payment[i].userId  t == payment[i].paymentType IN
             /\ t \in {"scanning", "bundle"} => user[u].hasPaidForScanning
             /\ t \in {"telegram", "bundle"} => user[u].hasPaidForTelegram

C29_VerifiesSessionOfReference ==
    result # <<>>
    => /\ result[1].verified # <<>> => result[1].verified = <<result[1].reference>>
       /\ result[1].reference \notin sessions => result[1].code = 404

(***************************************************************************)
(* Properties of the expiring-subscription check, checked under SpecExpiring *)
(***************************************************************************)

\* C30 (as claimed): a daily run notifies an active subscription with
\* daysUntilExpiry = N (N in 7, 3, 1) only when its nextBilling falls N days
\* after the day of the run, so that over consecutive daily runs a
\* subscription with a fixed nextBilling is notified at most once per N.
C30_NotifiedOnTheDayNBefore ==
    /\ \A n \in sent : Day(n.nextBilling) = n.day + n.daysUntilExpiry
    /\ \A n \in sent : \A m \in sent :
          (n.id = m.id /\ n.nextBilling = m.nextBilling
           /\ n.daysUntilExpiry = m.daysUntilExpiry) => n.day = m.day

====
